---- MODULE Spec2Model ----
(***************************************************************************)
(* Risk-constrained order execution and protective-order reconciliation    *)
(* of the OKX trading assistant (src/services/aiService.ts, which holds    *)
(* the exchange service, and src/unnamed/part_000, an earlier decision     *)
(* service).                                                               *)
(*                                                                         *)
(* Units: trigger prices are small positive integers; order sizes are      *)
(* integers counting hundredths of a contract (1.00 contract = 100).       *)
(* One instrument is modelled, so the instId filters of the code are       *)
(* always true and are left out.                                           *)
(***************************************************************************)
EXTENDS Integers, Sequences, FiniteSets, TLC

\* ------------------------------------------------------------------ bounds
MaxPx == 3          \* trigger prices range over 0..MaxPx ("0" is a string the code accepts)

\* --------------------------------------------------------------- constants
NoPrice == -1       \* an argument that is undefined or the empty string (falsy)

VARIABLES
    algos,        \* exchange: pending conditional/oco orders of the instrument
    nextAlgoId,   \* exchange: id given to the next conditional order
    pos,          \* exchange: the size held on each position side, in hundredths
    tpsl,         \* updatePositionTPSL: one record per call
    dec,          \* getTradingDecision: the model's answer, the snapshot, the decision
    ex,           \* executeOrder: the call's locals, result and request log
    cyc           \* the number of evaluation cycles that have ended

exchVars == <<algos, nextAlgoId, pos>>
vars == <<algos, nextAlgoId, pos, tpsl, dec, ex, cyc>>

Sides == {"long", "short"}
Outcomes == {"ok", "reject", "throw"}   \* code '0' / other code / fetch rejects
CallIds == {1, 2}

\* ================================================================ exchange
\* A pending order as /trade/orders-algo-pending returns it: its id, position
\* side and trigger prices (0 = that trigger is absent).
AlgoOrder(id, side, sl, tp) == [algoId |-> id, posSide |-> side, slTriggerPx |-> sl, tpTriggerPx |-> tp]

\* Orders that may be pending before a call: a stop-loss, a take-profit and an
\* oco order of the long side, and a stop-loss of the short side.
SeedAlgos ==
    { AlgoOrder(1, "long", 2, 0), AlgoOrder(2, "long", 0, 3),
      AlgoOrder(3, "short", 2, 0), AlgoOrder(4, "long", 1, 3) }

\* The exchange refuses a conditional order whose trigger price is not positive.
ExchangeAccepts(px) == px > 0

NoPosition == [long |-> 0, short |-> 0]

HasStopLoss(side) == \E o \in algos : o.posSide = side /\ o.slTriggerPx > 0

\* ====================================================== getTradingDecision
\* A JavaScript number as parseFloat returns it: NaN or a value.
NaN == [nan |-> TRUE, v |-> 0]
Num(x) == [nan |-> FALSE, v |-> x]

\* trading_decision.position_size: absent (or ""), a text that is no number,
\* or a number of hundredths of a contract ("0" is Num(0)).
SizeAbsent == [kind |-> "absent", v |-> 0]
SizeText == [kind |-> "text", v |-> 0]
SizeNum(h) == [kind |-> "num", v |-> h]
ParseSize(ps) == IF ps.kind = "num" THEN Num(ps.v) ELSE NaN

ContractValDen == 10        \* CONTRACT_VAL_ETH = 1 / ContractValDen = 0.1
CapRatioPermille == 300     \* capRatio = 0.30
AddRiskPermille == 150      \* baseRiskRatio when adding
OpenRiskPermille == 300     \* baseRiskRatio when opening
MaxSafePermille == 950      \* maxSafeMargin = availableEquity * 0.95 (part_000)
AddRiskPercent == 20        \* riskFactor when adding (part_000)
MinOpenValue == 100         \* MIN_OPEN_VALUE (part_000)
SizeUnset == -1             \* decision.size was never assigned

\* A size as a fraction num / den of a hundredth of a contract.
NoFraction == [num |-> 0, den |-> 1]

DecIdle ==
    [pc |-> "idle", ver |-> "A", modelAction |-> "HOLD", hasPosition |-> FALSE,
     posSide |-> "long", stopLoss |-> NaN, currentSL |-> 0, leverage |-> NaN,
     stageLeverage |-> 10, stageRisk |-> 30, availEq |-> 0, price |-> 0,
     sharpeNeg |-> FALSE, positionSize |-> SizeAbsent, confidence |-> NaN,
     action |-> "HOLD", size |-> SizeUnset, algo |-> NoFraction, candidate |-> NoFraction,
     answer |-> "ok", notes |-> {}, fallback |-> FALSE,
     totalEq |-> Num(0), stage |-> 0,
     rollingTrigger |-> FALSE, canRoll |-> TRUE, posSize |-> 0,
     roiAbove |-> FALSE, breakEvenPx |-> 0, forcedSL |-> 0]

Min(a, b) == IF a < b THEN a ELSE b
Max(a, b) == IF a > b THEN a ELSE b

RatchetGuardA_Strict(d) ==
    IF /\ d.modelAction = "UPDATE_TPSL" /\ d.hasPosition
       /\ ~d.stopLoss.nan /\ d.stopLoss.v > 0 /\ d.currentSL > 0
       /\ \/ d.posSide = "long" /\ d.stopLoss.v <= d.currentSL
          \/ d.posSide = "short" /\ d.stopLoss.v >= d.currentSL
    THEN "HOLD" ELSE d.modelAction

\* Ratchet Guard of aiService.ts: the action after the stop-loss check.
RatchetGuardA(d) ==
    IF /\ d.modelAction = "UPDATE_TPSL" /\ d.hasPosition
       /\ ~d.stopLoss.nan /\ d.stopLoss.v > 0 /\ d.currentSL > 0
       /\ \/ d.posSide = "long" /\ d.stopLoss.v < d.currentSL
          \/ d.posSide = "short" /\ d.stopLoss.v > d.currentSL
    THEN "HOLD" ELSE d.modelAction

RatchetGuardB_NoAnchor(d) ==
    IF /\ d.modelAction = "UPDATE_TPSL" /\ d.hasPosition
       /\ ~d.stopLoss.nan /\ d.stopLoss.v > 0
       /\ \/ d.posSide = "long" /\ d.stopLoss.v < d.currentSL
          \/ d.posSide = "short" /\ d.stopLoss.v > d.currentSL
    THEN "HOLD" ELSE d.modelAction

\* Risk Guard of part_000.
RatchetGuardB(d) ==
    IF /\ d.modelAction = "UPDATE_TPSL" /\ d.hasPosition
       /\ ~d.stopLoss.nan /\ d.stopLoss.v > 0
       /\ \/ d.posSide = "long" /\ d.currentSL > 0 /\ d.stopLoss.v < d.currentSL
          \/ d.posSide = "short" /\ d.currentSL > 0 /\ d.stopLoss.v > d.currentSL
    THEN "HOLD" ELSE d.modelAction

RatchetGuard(d) == IF d.ver = "A" THEN RatchetGuardA(d) ELSE RatchetGuardB(d)

\* safeLeverage = isNaN(leverage) ? currentStageParams.leverage : leverage
SafeLeverage(d) == IF d.leverage.nan THEN d.stageLeverage ELSE d.leverage.v

\* priceForCalc = currentPrice > 0 ? currentPrice : 1
PriceForCalc(d) == IF d.price > 0 THEN d.price ELSE 1

\* Sizes of aiService.ts are fractions num / SizeDen(d) of a hundredth of a
\* contract: hundredths = 100 * equity * (permille / 1000) * leverage /
\* (CONTRACT_VAL_ETH * price), with the equity in whole USDT.
SizeDen(d) == 10 * PriceForCalc(d)
ContractsNum(d, permille) == d.availEq * permille * SafeLeverage(d) * ContractValDen

RiskPermille2_Swapped(d) ==
    (IF d.hasPosition THEN OpenRiskPermille ELSE AddRiskPermille) * (IF d.sharpeNeg THEN 1 ELSE 2)

RiskPermille2_NoSharpe(d) ==
    (IF d.hasPosition THEN AddRiskPermille ELSE OpenRiskPermille) * 2

\* effectiveRiskRatio = baseRiskRatio * sharpeModifier, in permille times 2.
RiskPermille2(d) ==
    (IF d.hasPosition THEN AddRiskPermille ELSE OpenRiskPermille) * (IF d.sharpeNeg THEN 1 ELSE 2)

\* algoContracts, as a numerator over 2 * SizeDen(d).
AlgoNum2(d) == ContractsNum(d, RiskPermille2(d))

\* maxContractsCap, as a numerator over SizeDen(d).
MaxContractsCapNum(d) == ContractsNum(d, CapRatioPermille)

\* aiContracts: parsed only when position_size is truthy and not "0".
AiContracts(d) ==
    IF d.positionSize.kind # "absent" /\ d.positionSize # SizeNum(0)
    THEN ParseSize(d.positionSize) ELSE Num(0)

CandidateNum2_AnyNumber(d) ==
    IF ~ParseSize(d.positionSize).nan
    THEN ParseSize(d.positionSize).v * 2 * SizeDen(d)
    ELSE AlgoNum2(d)

\* finalContracts before the cap, as a numerator over 2 * SizeDen(d).
CandidateNum2(d) ==
    IF AiContracts(d).v > 0 /\ ~AiContracts(d).nan
    THEN AiContracts(d).v * 2 * SizeDen(d)
    ELSE AlgoNum2(d)

\* finalContracts after the cap, as a numerator over 2 * SizeDen(d).
FinalNum2(d) ==
    IF CandidateNum2(d) > 2 * MaxContractsCapNum(d)
    THEN 2 * MaxContractsCapNum(d) ELSE CandidateNum2(d)

\* Number.prototype.toFixed(2) of num / den hundredths (num >= 0): the nearest
\* hundredth; on an exact tie the double's rounding error decides, so either.
ToFixed2(num, den) ==
    LET q == (2 * num + den) \div (2 * den)
    IN IF (2 * num + den) % (2 * den) = 0 THEN {q - 1, q} ELSE {q}

\* decision.size = Math.max(finalContracts, 0.01).toFixed(2), in hundredths.
SizesA(d) == ToFixed2(Max(FinalNum2(d), 2 * SizeDen(d)), 2 * SizeDen(d))

\* The bracketed remarks appended to decision.reasoning.
RatchetNote(d, a) == IF a # d.modelAction THEN {"ratchet"} ELSE {}
CapNote(d) == IF CandidateNum2(d) > 2 * MaxContractsCapNum(d) THEN {"capped"} ELSE {}

\* The decisions aiService.ts may return for d: action, size and remarks.
DecideA(d) ==
    LET a == RatchetGuardA(d)
    IN IF a \in {"BUY", "SELL"}
       THEN { IF sz < 1 THEN [action |-> "HOLD", size |-> 0,
                              notes |-> CapNote(d) \cup {"minimum"}]
                        ELSE [action |-> a, size |-> sz, notes |-> CapNote(d)] :
              sz \in SizesA(d) }
       ELSE { [action |-> a, size |-> 0, notes |-> RatchetNote(d, a)] }

\* part_000: confidence = parseFloat(confidence) || 50
Confidence(d) == IF d.confidence.nan \/ d.confidence.v = 0 THEN 50 ELSE d.confidence.v

\* part_000: positionValue = finalMargin * safeLeverage, in 1/10000 USDT,
\* with the small-account fix to MIN_OPEN_VALUE.
PositionValueNum(d) ==
    LET riskFactor == IF d.hasPosition THEN AddRiskPercent ELSE d.stageRisk
        target == d.availEq * riskFactor * Confidence(d)
        maxSafe == d.availEq * (MaxSafePermille \div 10) * 100
        value == Min(target, maxSafe) * SafeLeverage(d)
    IN IF /\ ~d.hasPosition /\ value < MinOpenValue * 10000
          /\ d.availEq * 9 * SafeLeverage(d) > MinOpenValue * 10
          /\ Confidence(d) >= 40
       THEN MinOpenValue * 10000 ELSE value

\* part_000: numContracts in hundredths: Math.floor(numContractsRaw * 100),
\* overridden by the model's size when adding.
NumContractsB(d) ==
    LET floored == (PositionValueNum(d) * ContractValDen) \div (100 * d.price)
        ai == ParseSize(d.positionSize)
    IN IF d.hasPosition /\ ~ai.nan /\ ai.v > 0 THEN ai.v ELSE floored

\* The decision part_000 returns for d.
DecideB(d) ==
    LET a == RatchetGuardB(d)
    IN IF a \in {"BUY", "SELL"}
       THEN IF NumContractsB(d) < 1
            THEN (IF ~d.hasPosition THEN { [action |-> "HOLD", size |-> 0, notes |-> {}] }
                                    ELSE { [action |-> a, size |-> SizeUnset, notes |-> {}] })
            ELSE { [action |-> a, size |-> NumContractsB(d), notes |-> {}] }
       ELSE { [action |-> a, size |-> 0, notes |-> RatchetNote(d, a)] }

\* The rolling version of getTradingDecision (fixed leverage 20, 5% of the
\* total equity): targetContracts in hundredths is RollTargetNum(d) /
\* PriceForCalc(d), with the total equity in half USDT.
RollLeverage == 20
RollPercent == 5
RollTargetNum(d) == (d.totalEq.v * RollPercent * RollLeverage * ContractValDen) \div 2

\* Math.max(targetContracts, 0.01).toFixed(2), in hundredths.
RollSizes(d) == ToFixed2(Max(RollTargetNum(d), PriceForCalc(d)), PriceForCalc(d))

IsReducing(d) ==
    d.hasPosition /\ \/ d.posSide = "long" /\ d.modelAction = "SELL"
                     \/ d.posSide = "short" /\ d.modelAction = "BUY"

\* The decisions the rolling version may return for d: a reduction trims
\* half the position or takes the target size; an addition is forced to
\* HOLD below the 5% net profit or without funds, after the size was set.
DecideR(d) ==
    IF d.modelAction \in {"BUY", "SELL"}
    THEN IF IsReducing(d)
         THEN { [action |-> d.modelAction, size |-> sz, notes |-> {}] :
                   sz \in IF ~d.canRoll /\ d.rollingTrigger
                          THEN ToFixed2(d.posSize, 2) ELSE RollSizes(d) }
         ELSE { [action |-> IF d.hasPosition /\ (~d.rollingTrigger \/ ~d.canRoll)
                            THEN "HOLD" ELSE d.modelAction,
                 size |-> sz,
                 notes |-> IF d.hasPosition /\ ~d.rollingTrigger THEN {"rolling"}
                           ELSE IF d.hasPosition /\ ~d.canRoll THEN {"fundsExhausted"}
                           ELSE {}] : sz \in RollSizes(d) }
    ELSE { [action |-> d.modelAction, size |-> 0, notes |-> {}] }

\* The break-even version of getTradingDecision.  Its prices (currentSL,
\* breakEvenPx) are counted in half hundredths, currentSL = 0 is no stop-loss,
\* roiAbove is currentROI > TRIGGER_ROI.
NeedsForcedUpdate(d) ==
    /\ d.hasPosition /\ d.roiAbove
    /\ IF d.posSide = "long" THEN d.currentSL < d.breakEvenPx
       ELSE d.currentSL = 0 \/ d.currentSL > d.breakEvenPx

\* forcedBreakEvenAction.trading_decision.stop_loss = breakEvenPx.toFixed(2),
\* in hundredths.
ForcedStopLoss(d) == ToFixed2(d.breakEvenPx, 2)

MinMargin == 5000           \* MIN_MARGIN = 0.5 USDT, in 1/10000 USDT

\* positionValue in 1/10000 USDT, with the first-open correction.
PositionValueNumC(d) ==
    LET target == d.availEq * d.stageRisk * Confidence(d)
        maxSafe == d.availEq * (MaxSafePermille \div 10) * 100
        margin == Min(target, maxSafe)
    IN (IF ~d.hasPosition /\ margin < MinMargin /\ d.availEq >= 1
        THEN MinMargin ELSE margin) * SafeLeverage(d)

\* numContracts in hundredths: the model's size when it is below the
\* computed one, floored to 0.01.
NumContractsC(d) ==
    LET calc == (PositionValueNumC(d) * ContractValDen) \div (100 * d.price)
        raw == IF d.positionSize.kind = "absent" THEN Num(0) ELSE ParseSize(d.positionSize)
    IN IF ~raw.nan /\ raw.v > 0 /\ raw.v * 100 * d.price < PositionValueNumC(d) * ContractValDen
       THEN raw.v ELSE calc

\* Logic Fusion and sizing: the forced decision replaces every answer but
\* CLOSE.
DecideC(d) ==
    IF NeedsForcedUpdate(d) /\ d.modelAction # "CLOSE"
    THEN { [action |-> "UPDATE_TPSL", size |-> 0, notes |-> {"forced"}, forcedSL |-> h] :
              h \in ForcedStopLoss(d) }
    ELSE IF d.modelAction \in {"BUY", "SELL"}
         THEN IF NumContractsC(d) < 1
              THEN { [action |-> "HOLD", size |-> 0, notes |-> {}, forcedSL |-> 0] }
              ELSE { [action |-> d.modelAction, size |-> NumContractsC(d),
                      notes |-> {}, forcedSL |-> 0] }
         ELSE { [action |-> d.modelAction, size |-> 0, notes |-> {}, forcedSL |-> 0] }

Decide(d) ==
    CASE d.ver = "A" -> DecideA(d)
      [] d.ver = "B" -> DecideB(d)
      [] d.ver = "C" -> DecideC(d)
      [] OTHER -> DecideR(d)

\* algoContracts and finalContracts before the cap, where aiService.ts sizes.
AlgoContracts(d) ==
    IF d.ver = "A" /\ RatchetGuardA(d) \in {"BUY", "SELL"}
    THEN [num |-> AlgoNum2(d), den |-> 2 * SizeDen(d)] ELSE NoFraction

CandidateContracts(d) ==
    IF d.ver = "A" /\ RatchetGuardA(d) \in {"BUY", "SELL"}
    THEN [num |-> CandidateNum2(d), den |-> 2 * SizeDen(d)] ELSE NoFraction

\* Total equity is counted in half USDT.
StageOneBelow == 40         \* totalEquity < 20
StageTwoBelow == 160        \* totalEquity < 80

SelectStage_Inclusive(totalEquity) ==
    IF ~totalEquity.nan /\ totalEquity.v <= StageOneBelow THEN 1
    ELSE IF ~totalEquity.nan /\ totalEquity.v <= StageTwoBelow THEN 2
    ELSE 3

\* currentStageParams: the stage of STRATEGY_STAGES the total equity selects;
\* a comparison with NaN is false.
SelectStage(totalEquity) ==
    IF ~totalEquity.nan /\ totalEquity.v < StageOneBelow THEN 1
    ELSE IF ~totalEquity.nan /\ totalEquity.v < StageTwoBelow THEN 2
    ELSE 3

\* The rolling version has no stages.
StageOf(d) == IF d.ver = "R" THEN 0 ELSE SelectStage(d.totalEq)

Throws_OnlyEmpty(d) == d.answer = "empty"

\* The try block throws on an empty answer, on text that is no JSON and on
\* reading trading_decision.action of an object that has none.
Throws(d) == d.answer # "ok"

\* The post-processing of one model answer; what the try block throws is
\* caught and the System Error decision (HOLD, size "0") is returned.
GetTradingDecision ==
    /\ dec.pc = "input"
    /\ IF Throws(dec)
       THEN dec' = [dec EXCEPT !.pc = "decided", !.action = "HOLD", !.size = 0,
                               !.notes = {"systemError"}, !.fallback = TRUE,
                               !.stage = StageOf(dec)]
       ELSE \E r \in Decide(dec) :
              dec' = [dec EXCEPT !.pc = "decided", !.action = r.action, !.size = r.size,
                                 !.notes = r.notes,
                                 !.forcedSL = IF dec.ver = "C" THEN r.forcedSL ELSE 0,
                                 !.stage = StageOf(dec),
                                 !.algo = AlgoContracts(dec),
                                 !.candidate = CandidateContracts(dec)]
    /\ UNCHANGED <<algos, nextAlgoId, pos, tpsl, ex>>

\* The next evaluation cycle brings a new answer and a new snapshot.
Actions == {"BUY", "SELL", "HOLD", "CLOSE", "UPDATE_TPSL"}
StopLossInputs == {NaN} \cup { Num(x) : x \in 0..MaxPx }
LeverageInputs == {NaN, Num(0), Num(5), Num(10)}
EquityInputs == {0, 1, 100}
PriceInputs == {0, 1990, 3000}
SizeInputs == {SizeAbsent, SizeText, SizeNum(0), SizeNum(-100), SizeNum(1), SizeNum(40), SizeNum(5000)}
ConfidenceInputs == {NaN, Num(30), Num(80)}

\* The model's text: a JSON object with trading_decision.action; nothing;
\* text that is no JSON; JSON without trading_decision or without its action.
Answers == {"ok", "empty", "badJson", "noDecision"}

\* Every answer and snapshot of the rolling version.
RollEquityInputs == {0, 2, 200}
RollPosSizes == {1, 3, 100}
DecInputsR ==
    { d \in [pc : {"input"}, ver : {"R"}, modelAction : Actions,
             hasPosition : BOOLEAN, posSide : Sides,
             stopLoss : {NaN}, currentSL : {0},
             leverage : {NaN}, stageLeverage : {10}, stageRisk : {30},
             availEq : {0}, price : PriceInputs, sharpeNeg : {FALSE},
             positionSize : {SizeAbsent}, confidence : {NaN},
             action : {"HOLD"}, size : {SizeUnset},
             algo : {NoFraction}, candidate : {NoFraction},
             answer : Answers, notes : {{}}, fallback : {FALSE},
             totalEq : { Num(eq) : eq \in RollEquityInputs }, stage : {0},
             rollingTrigger : BOOLEAN, canRoll : BOOLEAN,
             posSize : {0} \cup RollPosSizes,
             roiAbove : {FALSE}, breakEvenPx : {0}, forcedSL : {0}] :
        /\ d.answer # "ok" => d.modelAction = "HOLD" /\ ~d.hasPosition
        /\ d.hasPosition <=> d.posSize > 0
        /\ ~d.hasPosition => d.posSide = "long" /\ ~d.rollingTrigger
        /\ d.modelAction \notin {"BUY", "SELL"} =>
              d.price = 3000 /\ d.totalEq = Num(0) /\ d.canRoll /\ d.posSize <= 1 }

\* Every answer and snapshot of aiService.ts and part_000; the fields a
\* branch never reads keep one value.
DecInputs ==
    { d \in [pc : {"input"}, ver : {"A", "B"}, modelAction : Actions,
             hasPosition : BOOLEAN, posSide : Sides,
             stopLoss : StopLossInputs, currentSL : 0..MaxPx,
             leverage : LeverageInputs, stageLeverage : {10}, stageRisk : {30},
             availEq : EquityInputs, price : PriceInputs, sharpeNeg : BOOLEAN,
             positionSize : SizeInputs, confidence : ConfidenceInputs,
             action : {"HOLD"}, size : {SizeUnset},
             algo : {NoFraction}, candidate : {NoFraction},
             answer : Answers, notes : {{}}, fallback : {FALSE},
             totalEq : {Num(0)}, stage : {0},
             rollingTrigger : {FALSE}, canRoll : {TRUE}, posSize : {0},
             roiAbove : {FALSE}, breakEvenPx : {0}, forcedSL : {0}] :
        /\ d.answer # "ok" => d.modelAction = "HOLD" /\ ~d.hasPosition
        /\ d.modelAction # "UPDATE_TPSL" => d.stopLoss = NaN /\ d.currentSL = 0
        /\ d.modelAction \notin {"BUY", "SELL"} =>
              /\ d.leverage = NaN /\ d.availEq = 0 /\ d.price = 3000
              /\ ~d.sharpeNeg /\ d.positionSize = SizeAbsent /\ d.confidence = NaN
        /\ ~d.hasPosition => d.posSide = "long" /\ d.currentSL = 0
        /\ d.ver = "A" => d.confidence = NaN
        /\ d.ver = "B" => ~d.sharpeNeg /\ d.price > 0 }

\* Every answer and snapshot of the break-even version: stop-losses of two
\* decimals (or none) around break-even prices of three decimals.
BreakEvenStopLosses == {0, 2, 4, 6}
BreakEvenPrices == {3, 4, 5}
DecInputsC ==
    { d \in [pc : {"input"}, ver : {"C"}, modelAction : Actions,
             hasPosition : BOOLEAN, posSide : Sides,
             stopLoss : {NaN}, currentSL : BreakEvenStopLosses,
             leverage : {NaN, Num(10)}, stageLeverage : {10}, stageRisk : {30},
             availEq : EquityInputs, price : {1990, 3000}, sharpeNeg : {FALSE},
             positionSize : {SizeAbsent, SizeNum(1), SizeNum(5000)},
             confidence : {NaN, Num(80)},
             action : {"HOLD"}, size : {SizeUnset},
             algo : {NoFraction}, candidate : {NoFraction},
             answer : Answers, notes : {{}}, fallback : {FALSE},
             totalEq : {Num(0)}, stage : {0},
             rollingTrigger : {FALSE}, canRoll : {TRUE}, posSize : {0},
             roiAbove : BOOLEAN, breakEvenPx : BreakEvenPrices, forcedSL : {0}] :
        /\ d.answer # "ok" => d.modelAction = "HOLD"
        /\ ~d.hasPosition =>
              d.posSide = "long" /\ ~d.roiAbove /\ d.currentSL = 0 /\ d.breakEvenPx = 3
        /\ d.modelAction \notin {"BUY", "SELL"} =>
              /\ d.leverage = NaN /\ d.availEq = 0 /\ d.price = 3000
              /\ d.positionSize = SizeAbsent /\ d.confidence = NaN }

\* balance.totalEq as parseFloat reads it, in half USDT: no number, a small
\* negative balance, and every value up to MaxTotalEq / 2 USDT.
MaxTotalEq == 170
TotalEqInputs == {NaN} \cup { Num(x) : x \in -2..MaxTotalEq }

\* A call that holds: the snapshots differ in the total equity, the answers
\* in whether they parse.
StageInputs ==
    { [DecIdle EXCEPT !.pc = "input", !.totalEq = e, !.answer = a] :
        e \in TotalEqInputs, a \in Answers }

\* The next call starts from a new snapshot; nothing of the last call is kept.
NextSnapshot ==
    /\ dec.pc = "decided"
    /\ dec' \in StageInputs
    /\ UNCHANGED <<algos, nextAlgoId, pos, tpsl, ex>>


\* ===================================================== updatePositionTPSL
TpslIdle ==
    [pc |-> "idle", posSide |-> "long", slPrice |-> NoPrice, tpPrice |-> NoPrice,
     toCancel |-> {}, result |-> "none", log |-> <<>>, pre |-> {}, placed |-> {}]

\* JavaScript truthiness of a string argument: undefined and "" are falsy,
\* every other string (also "0") is truthy.
Truthy(p) == p # NoPrice

ToCancel_AllSides(pendingAlgos, side) == { o.algoId : o \in pendingAlgos }

\* toCancel: the fetched orders of this position side, by id.
ToCancel(pendingAlgos, side) == { o.algoId : o \in { x \in pendingAlgos : x.posSide = side } }

\* fetchAlgoOrders: the data of a code-'0' answer, [] on any other answer or error.
FetchAlgoOrders(out) == IF out = "ok" THEN algos ELSE {}

\* Where the call goes once every requested placement has succeeded.
PcAfterPlacements(toC) == IF toC # {} THEN "cancel" ELSE "done"

\* Where the call goes after the fetch.
PcAfterFetch(sl, tp, toC) ==
    IF Truthy(sl) \/ Truthy(tp)
    THEN (IF Truthy(sl) THEN "placeSL" ELSE "placeTP")
    ELSE PcAfterPlacements(toC)

PcAfterPlaceSL_NoThrow(out, tp, toC) ==
    IF Truthy(tp) THEN "placeTP" ELSE PcAfterPlacements(toC)

\* After the stop-loss placement: a non-'0' code or a failed fetch throws.
PcAfterPlaceSL(out, tp, toC) ==
    IF out # "ok" THEN "done"
    ELSE IF Truthy(tp) THEN "placeTP" ELSE PcAfterPlacements(toC)

PcAfterPlaceTP_NoThrow(out, toC) == PcAfterPlacements(toC)

\* After the take-profit placement.
PcAfterPlaceTP(out, toC) ==
    IF out # "ok" THEN "done" ELSE PcAfterPlacements(toC)

TpslResult_ChecksCancel(nextPc, out, wasCancel) ==
    IF nextPc # "done" THEN "none" ELSE IF out = "ok" THEN "ok" ELSE "throw"

\* The call's result when it reaches "done" from a step with outcome out.
TpslResult(nextPc, out, wasCancel) ==
    IF nextPc # "done" THEN "none"
    ELSE IF wasCancel THEN (IF out = "throw" THEN "throw" ELSE "ok")
    ELSE IF out = "ok" THEN "ok" ELSE "throw"

Logged(c, req, out) == Append(tpsl[c].log, [req |-> req, out |-> out])
Answered(c, out) == [tpsl[c].log EXCEPT ![Len(tpsl[c].log)].out = out]

\* The call starts; in simulation mode it returns at once.
TpslStart(c, side, sl, tp, sim) ==
    /\ tpsl[c].pc = "idle"
    /\ tpsl' = [tpsl EXCEPT ![c] =
            [TpslIdle EXCEPT !.pc = IF sim THEN "done" ELSE "fetch",
                             !.posSide = side, !.slPrice = sl, !.tpPrice = tp,
                             !.result = IF sim THEN "simOk" ELSE "none",
                             !.pre = algos]]
    /\ UNCHANGED exchVars

\* A request leaves: the call waits for the answer.
TpslSend(c) ==
    /\ tpsl[c].pc \in {"fetch", "placeSL", "placeTP", "cancel"}
    /\ tpsl' = [tpsl EXCEPT ![c].pc = tpsl[c].pc \o "Wait",
                            ![c].log = Logged(c, tpsl[c].pc, "pending")]
    /\ UNCHANGED exchVars

\* 1. the answer of orders-algo-pending
TpslFetched(c, out) ==
    /\ tpsl[c].pc = "fetchWait"
    /\ LET toC == ToCancel(FetchAlgoOrders(out), tpsl[c].posSide)
           npc == PcAfterFetch(tpsl[c].slPrice, tpsl[c].tpPrice, toC)
       IN tpsl' = [tpsl EXCEPT ![c].pc = npc,
                               ![c].toCancel = toC,
                               ![c].log = Answered(c, out),
                               ![c].result = IF npc = "done" THEN "nothingNew" ELSE "none"]
    /\ UNCHANGED exchVars

\* 2. the answer of order-algo for the new stop-loss (kind "sl") or take-profit
PlaceAnswered(c, kind, out) ==
    /\ tpsl[c].pc = (IF kind = "sl" THEN "placeSLWait" ELSE "placeTPWait")
    /\ LET px == IF kind = "sl" THEN tpsl[c].slPrice ELSE tpsl[c].tpPrice
           npc == IF kind = "sl"
                  THEN PcAfterPlaceSL(out, tpsl[c].tpPrice, tpsl[c].toCancel)
                  ELSE PcAfterPlaceTP(out, tpsl[c].toCancel)
       IN /\ out = "ok" => ExchangeAccepts(px)
          /\ IF out = "ok"
             THEN /\ algos' = algos \cup
                        { AlgoOrder(nextAlgoId, tpsl[c].posSide,
                                    IF kind = "sl" THEN px ELSE 0,
                                    IF kind = "sl" THEN 0 ELSE px) }
                  /\ nextAlgoId' = nextAlgoId + 1
             ELSE UNCHANGED <<algos, nextAlgoId>>
          /\ UNCHANGED pos
          /\ tpsl' = [tpsl EXCEPT ![c].pc = npc,
                                  ![c].log = Answered(c, out),
                                  ![c].placed = IF out = "ok" THEN @ \cup {nextAlgoId} ELSE @,
                                  ![c].result = TpslResult(npc, out, FALSE)]

Cancelled_PendingNow(c) == { o \in algos : o.posSide = tpsl[c].posSide }

\* The pending orders a cancel-algos request with body toCancel names.
Cancelled(c) == { o \in algos : o.algoId \in tpsl[c].toCancel }

\* 3. the answer of cancel-algos; the code does not read it
CancelAnswered(c, out) ==
    /\ tpsl[c].pc = "cancelWait"
    /\ algos' = IF out = "ok" THEN algos \ Cancelled(c) ELSE algos
    /\ UNCHANGED <<nextAlgoId, pos>>
    /\ tpsl' = [tpsl EXCEPT ![c].pc = "done",
                            ![c].log = Answered(c, out),
                            ![c].result = TpslResult("done", out, TRUE)]

TpslPrices == {NoPrice} \cup (0..MaxPx)

\* The steps of a call that has started.
TpslRun(c) ==
    \/ TpslSend(c)
    \/ \E out \in Outcomes : TpslFetched(c, out)
    \/ \E kind \in {"sl", "tp"}, out \in Outcomes : PlaceAnswered(c, kind, out)
    \/ \E out \in Outcomes : CancelAnswered(c, out)

TpslStep(c) ==
    \/ \E side \in Sides, sl \in TpslPrices, tp \in TpslPrices, sim \in BOOLEAN :
            TpslStart(c, side, sl, tp, sim)
    \/ TpslRun(c)

\* =========================================================== executeOrder
NullPos == [posSide |-> "none", pos |-> 0]      \* currentPos = null
NoSide == [side |-> "", posSide |-> "", reduceOnly |-> FALSE]

ExIdle ==
    [pc |-> "idle", action |-> "HOLD", size |-> NaN, sl |-> NaN, tp |-> NaN,
     resolved |-> NoSide, currentSz |-> NaN, retries |-> 0, result |-> "none",
     log |-> <<>>, pre |-> NoPosition, err |-> <<>>]

\* One request of the log; the fields a request does not carry stay empty.
Request(req) ==
    [req |-> req, out |-> "pending", sz |-> NaN, side |-> NoSide, sl |-> 0, tp |-> 0]

\* cleanPrice: the price when it parses to a number > 0, else null (0).
CleanPrice(p) == IF ~p.nan /\ p.v > 0 THEN p.v ELSE 0

\* The rows /account/positions may answer with: one per side that is held,
\* none when the answer is an error.
PositionRows(out) ==
    IF out = "ok"
    THEN { [posSide |-> sd, pos |-> pos[sd]] : sd \in { x \in Sides : pos[x] > 0 } }
    ELSE {}

\* currentPos = data[0], or null when there is no row.
CurrentPos(out) == IF PositionRows(out) = {} THEN {NullPos} ELSE PositionRows(out)

ResolveSide_NoReduceOnly(currentPos, action) ==
    [side |-> IF action = "BUY" THEN "buy" ELSE "sell",
     posSide |-> IF currentPos.pos > 0 THEN currentPos.posSide
                 ELSE IF action = "BUY" THEN "long" ELSE "short",
     reduceOnly |-> FALSE]

\* 1. side, posSide and reduceOnly from the position read and the action.
ResolveSide(currentPos, action) ==
    IF currentPos.pos > 0
    THEN [side |-> IF action = "BUY" THEN "buy" ELSE "sell",
          posSide |-> currentPos.posSide,
          reduceOnly |-> \/ currentPos.posSide = "long" /\ action = "SELL"
                         \/ currentPos.posSide = "short" /\ action = "BUY"]
    ELSE [side |-> IF action = "BUY" THEN "buy" ELSE "sell",
          posSide |-> IF action = "BUY" THEN "long" ELSE "short",
          reduceOnly |-> FALSE]

InitialRetries_Three == 2 + 1

\* placeOrderWithRetry(initialSizeStr, 2)
InitialRetries == 2

\* (parseFloat(currentSz) * 0.8).toFixed(2), in hundredths; 8 * sz / 10 is
\* never half-way between two hundredths.
Reduced(sz) == IF sz.nan THEN NaN ELSE Num(CHOOSE q \in ToFixed2(8 * sz.v, 10) : TRUE)

ShouldRetry_AnyRejection(out, sz, retries) ==
    out \in {"margin", "other"} /\ retries > 0 /\ ~Reduced(sz).nan /\ Reduced(sz).v >= 1

ShouldRetry_AfterAccept(out, sz, retries) ==
    out \in {"ok", "margin"} /\ retries > 0 /\ ~Reduced(sz).nan /\ Reduced(sz).v >= 1

\* The 51008 branch: retry with the reduced size while retries are left and
\* the reduced size is at least 0.01.
ShouldRetry(out, sz, retries) ==
    out = "margin" /\ retries > 0 /\ ~Reduced(sz).nan /\ Reduced(sz).v >= 1

\* What placeOrderWithRetry throws or returns when it does not retry.
PlaceResult(out) ==
    CASE out = "ok" -> "ok"
      [] out = "margin" -> "throwMargin"
      [] out = "other" -> "throwExchange"
      [] OTHER -> "throwNet"

ExLogged(r) == Append(ex.log, r)

ExAnswered_NotAwaited(out) == ex.log

\* The awaited response of the last request.
ExAnswered(out) == [ex.log EXCEPT ![Len(ex.log)].out = out]

\* The call starts; in simulation mode it returns at once.
ExecStart(action, size, sl, tp, sim) ==
    /\ ex.pc = "idle"
    /\ ex' = [ExIdle EXCEPT !.pc = IF sim THEN "done" ELSE "modeGet",
                            !.action = action, !.size = size, !.sl = sl, !.tp = tp,
                            !.result = IF sim THEN "simOk" ELSE "none",
                            !.pre = pos]
    /\ UNCHANGED <<exchVars, tpsl, dec>>

\* A request without parameters of interest leaves.
ExecSend ==
    /\ ex.pc \in {"modeGet", "modeSet", "closeLong", "closeShort", "posQuery", "setLeverage"}
    /\ ex' = [ex EXCEPT !.pc = ex.pc \o "Wait", !.log = ExLogged(Request(ex.pc))]
    /\ UNCHANGED <<exchVars, tpsl, dec>>

\* 0. ensureLongShortMode: every failure is caught and only logged.
AfterModeCheck == IF ex.action = "CLOSE" THEN "closeLong" ELSE "posQuery"

ModeRead(out) ==
    /\ ex.pc = "modeGetWait"
    /\ ex' = [ex EXCEPT !.pc = IF out = "other" THEN "modeSet" ELSE AfterModeCheck,
                        !.log = ExAnswered(out)]
    /\ UNCHANGED <<exchVars, tpsl, dec>>

PcAfterModeSwitch_Throws(out) == IF out = "ok" THEN AfterModeCheck ELSE "done"

\* What ensureLongShortMode throws is caught by executeOrder and only logged.
PcAfterModeSwitch(out) == AfterModeCheck

ModeSwitched(out) ==
    /\ ex.pc = "modeSetWait"
    /\ ex' = [ex EXCEPT !.pc = PcAfterModeSwitch(out), !.log = ExAnswered(out)]
    /\ UNCHANGED <<exchVars, tpsl, dec>>

\* The exchange closes a side that is held and cancels its conditional orders.
ClosePosition(sd) ==
    /\ pos' = [pos EXCEPT ![sd] = 0]
    /\ algos' = { o \in algos : o.posSide # sd }
    /\ UNCHANGED nextAlgoId

\* The answers to close-position: code '0'; code 51000 or a message that says
\* the position does not exist; any other code; a failed request.
CloseOutcomes == {"ok", "notFound", "other", "throw"}
CloseRejected(out) == out \in {"notFound", "other"}

PcAfterClose_ShortAfterSuccess(sd, out) ==
    IF out # "throw" /\ sd = "long" THEN "closeShort" ELSE "done"

PcAfterClose_RetryLong(sd, out) ==
    IF CloseRejected(out) THEN (IF sd = "long" THEN "closeShort" ELSE "closeLong") ELSE "done"

PcAfterClose_OnlyNotFound(sd, out) ==
    IF out = "notFound" /\ sd = "long" THEN "closeShort" ELSE "done"

\* CLOSE: the long side first; the short side after any answer of the long
\* side that is not code '0'; then the call returns or throws.
PcAfterClose(sd, out) ==
    IF CloseRejected(out) /\ sd = "long" THEN "closeShort" ELSE "done"

\* longMsg / shortMsg: the fixed text when the position does not exist, else
\* the message of the exchange.
CloseReason(sd, out) ==
    [side |-> sd, text |-> IF out = "notFound" THEN "notExist" ELSE "exchangeMsg"]

CloseError_ShortOnly(longOut, shortOut) == <<CloseReason("short", shortOut)>>

\* The error thrown when both sides failed names both reasons.
CloseError(longOut, shortOut) == <<CloseReason("long", longOut), CloseReason("short", shortOut)>>

CloseResult(sd, out) ==
    CASE out = "ok" -> "ok"
      [] out = "throw" -> "throwNet"
      [] sd = "long" -> "none"
      [] OTHER -> "throwClose"

\* The exchange closes only a side that is held, and reports a missing
\* position only for a side that is not held.
CloseAnswered(sd, out) ==
    /\ ex.pc = (IF sd = "long" THEN "closeLongWait" ELSE "closeShortWait")
    /\ out = "ok" => pos[sd] > 0
    /\ out = "notFound" => pos[sd] = 0
    /\ IF out = "ok" THEN ClosePosition(sd) ELSE UNCHANGED exchVars
    /\ ex' = [ex EXCEPT
            !.pc = PcAfterClose(sd, out),
            !.log = ExAnswered(out),
            !.result = CloseResult(sd, out),
            !.err = IF CloseResult(sd, out) = "throwClose"
                    THEN CloseError(ex.log[Len(ex.log) - 1].out, out) ELSE <<>>]
    /\ UNCHANGED <<tpsl, dec>>

\* 1. the answer of the position query; a failed fetch ends the call.
PositionRead(out) ==
    /\ ex.pc = "posQueryWait"
    /\ \E cp \in CurrentPos(out) :
          ex' = [ex EXCEPT !.pc = IF out = "throw" THEN "done" ELSE "setLeverage",
                           !.log = ExAnswered(out),
                           !.resolved = IF out = "throw" THEN NoSide
                                        ELSE ResolveSide(cp, ex.action),
                           !.result = IF out = "throw" THEN "throwNet" ELSE "none"]
    /\ UNCHANGED <<exchVars, tpsl, dec>>

PcAfterLeverage_Swallowed(out, tooSmall) == IF ~tooSmall THEN "place" ELSE "done"

\* A failed set-leverage throws; so does a size below 0.01.
PcAfterLeverage(out, tooSmall) == IF out = "ok" /\ ~tooSmall THEN "place" ELSE "done"

\* 2. the answer of set-leverage; then the size check, which lets NaN through.
LeverageSet(out) ==
    /\ ex.pc = "setLeverageWait"
    /\ LET tooSmall == ~ex.size.nan /\ ex.size.v < 1
       IN ex' = [ex EXCEPT
               !.pc = PcAfterLeverage(out, tooSmall),
               !.log = ExAnswered(out),
               !.currentSz = ex.size,
               !.retries = InitialRetries,
               !.result = IF out # "ok" THEN "throwLeverage"
                          ELSE IF tooSmall THEN "throwSize" ELSE "none"]
    /\ UNCHANGED <<exchVars, tpsl, dec>>

AttachSl_Always == CleanPrice(ex.sl)

AttachSl_FirstAttemptOnly ==
    IF ex.resolved.reduceOnly \/ ex.retries < InitialRetries THEN 0 ELSE CleanPrice(ex.sl)

\* The triggers attached to an order: none on a reduce-only order.
AttachSl == IF ex.resolved.reduceOnly THEN 0 ELSE CleanPrice(ex.sl)
AttachTp == IF ex.resolved.reduceOnly THEN 0 ELSE CleanPrice(ex.tp)

\* 3. one placement attempt leaves.
PlaceSend ==
    /\ ex.pc = "place"
    /\ ex' = [ex EXCEPT !.pc = "placeWait",
                        !.log = ExLogged([Request("order") EXCEPT
                                    !.sz = ex.currentSz, !.side = ex.resolved,
                                    !.sl = AttachSl, !.tp = AttachTp])]
    /\ UNCHANGED <<exchVars, tpsl, dec>>

\* The exchange fills an accepted market order and creates its attached order.
PlaceOutcomes == {"ok", "margin", "other", "throw"}

Fill(o) ==
    /\ pos' = [pos EXCEPT ![o.side.posSide] =
                  IF o.side.reduceOnly THEN Max(@ - o.sz.v, 0) ELSE @ + o.sz.v]
    /\ LET closed == o.side.reduceOnly /\ pos[o.side.posSide] <= o.sz.v
           kept == IF closed THEN { a \in algos : a.posSide # o.side.posSide } ELSE algos
       IN IF o.sl > 0 \/ o.tp > 0
          THEN /\ algos' = kept \cup {AlgoOrder(nextAlgoId, o.side.posSide, o.sl, o.tp)}
               /\ nextAlgoId' = nextAlgoId + 1
          ELSE /\ algos' = kept
               /\ UNCHANGED nextAlgoId

\* The exchange accepts only a numeric size, and a reduce-only order only
\* against a held position.
MayAnswer(o, out) ==
    out = "ok" => ~o.sz.nan /\ (o.side.reduceOnly => pos[o.side.posSide] > 0)

PlaceAnsweredOrder(out) ==
    /\ ex.pc = "placeWait"
    /\ LET o == ex.log[Len(ex.log)]
           again == ShouldRetry(out, ex.currentSz, ex.retries)
       IN /\ MayAnswer(o, out)
          /\ IF out = "ok" THEN Fill(o) ELSE UNCHANGED exchVars
          /\ ex' = [ex EXCEPT
                  !.pc = IF again THEN "place" ELSE "done",
                  !.log = ExAnswered(out),
                  !.currentSz = IF again THEN Reduced(@) ELSE @,
                  !.retries = IF again THEN @ - 1 ELSE @,
                  !.result = IF again THEN "none" ELSE PlaceResult(out)]
    /\ UNCHANGED <<tpsl, dec>>

MaxSmallSize == 3       \* order sizes 0..MaxSmallSize hundredths, and 1.00
OrderSizes == {NaN, Num(100)} \cup { Num(h) : h \in 0..MaxSmallSize }
OrderPrices == {NaN, Num(2)}
ModeOutcomes == {"ok", "other", "reject", "throw"}    \* "other": not long_short_mode

\* The steps of a call that has started.
ExecRun ==
    \/ ExecSend
    \/ \E out \in ModeOutcomes : ModeRead(out)
    \/ \E out \in Outcomes : ModeSwitched(out)
    \/ \E sd \in Sides, out \in CloseOutcomes : CloseAnswered(sd, out)
    \/ \E out \in Outcomes : PositionRead(out)
    \/ \E out \in Outcomes : LeverageSet(out)
    \/ PlaceSend
    \/ \E out \in PlaceOutcomes : PlaceAnsweredOrder(out)

ExecStep ==
    \/ \E a \in {"BUY", "SELL", "CLOSE"}, sz \in OrderSizes, sl \in OrderPrices,
          tp \in OrderPrices, sim \in BOOLEAN :
            /\ a = "CLOSE" => sz = Num(0) /\ sl = NaN /\ tp = NaN
            /\ ExecStart(a, sz, sl, tp, sim)
    \/ ExecRun

\* While a call awaits the exchange, a held position may shrink or disappear
\* (a trigger fires, another client trades); one that disappears takes its
\* conditional orders with it.
PositionShrinks ==
    /\ ex.pc \notin {"idle", "done"}
    /\ \E sd \in Sides, n \in 0..2 :
          /\ n < pos[sd]
          /\ IF n = 0 THEN ClosePosition(sd)
             ELSE pos' = [pos EXCEPT ![sd] = n] /\ UNCHANGED <<algos, nextAlgoId>>
    /\ UNCHANGED <<ex, tpsl, dec>>

\* ======================================================= evaluation cycle
MaxCycles == 2      \* evaluation cycles in one run

\* fetchAccountData: the stop-loss the snapshot shows for a position row is
\* that of the first pending order of its side with a positive stop-loss
\* trigger, in the order the exchange lists them; absent (0) when there is
\* none or fetchAlgoOrders answered [].
SnapshotStopLoss(row, out) ==
    LET sls == { o.slTriggerPx : o \in { x \in FetchAlgoOrders(out) :
                                           x.posSide = row.posSide /\ x.slTriggerPx > 0 } }
    IN IF sls = {} THEN {0} ELSE sls

\* getTradingDecision reads the first position row of the instrument, its
\* stop-loss, and the model's answer; equity 100 USDT at price 3000.
CycleInput(row, currentSL, action, stopLoss) ==
    [DecIdle EXCEPT !.pc = "input", !.ver = "A", !.modelAction = action,
                    !.hasPosition = row.pos > 0,
                    !.posSide = IF row.pos > 0 THEN row.posSide ELSE "long",
                    !.stopLoss = stopLoss, !.currentSL = currentSL,
                    !.availEq = 100, !.price = 3000]

\* A cycle begins: the snapshot is read and the model answers.
StartCycle ==
    /\ cyc < MaxCycles
    /\ dec.pc = "idle" /\ ex.pc = "idle" /\ tpsl[1].pc = "idle"
    /\ \E row \in CurrentPos("ok"), out \in Outcomes,
          a \in Actions, sl \in StopLossInputs :
          \E cur \in SnapshotStopLoss(row, out) :
              dec' = CycleInput(row, cur, a, sl)
    /\ UNCHANGED <<exchVars, tpsl, ex, cyc>>

\* An argument of updatePositionTPSL from a field of the decision.
PriceArg(p) == IF p.nan THEN NoPrice ELSE p.v

\* BUY, SELL and CLOSE go to executeOrder.
DispatchOrder ==
    /\ dec.pc = "decided" /\ dec.action \in {"BUY", "SELL", "CLOSE"}
    /\ ExecStart(dec.action, Num(dec.size), dec.stopLoss, NaN, FALSE)
    /\ UNCHANGED cyc

\* UPDATE_TPSL goes to updatePositionTPSL for the side of the position held.
DispatchTpsl ==
    /\ dec.pc = "decided" /\ dec.action = "UPDATE_TPSL" /\ dec.hasPosition
    /\ \E tp \in {NoPrice, MaxPx} :
          TpslStart(1, dec.posSide, PriceArg(dec.stopLoss), tp, FALSE)
    /\ UNCHANGED <<dec, ex, cyc>>

\* The cycle ends: at once on HOLD and on UPDATE_TPSL without a position,
\* else when the call has returned or thrown.
EndCycle ==
    /\ dec.pc = "decided"
    /\ \/ dec.action = "HOLD"
       \/ dec.action = "UPDATE_TPSL" /\ ~dec.hasPosition
       \/ ex.pc = "done"
       \/ tpsl[1].pc = "done"
    /\ dec' = DecIdle
    /\ ex' = ExIdle
    /\ tpsl' = [tpsl EXCEPT ![1] = TpslIdle]
    /\ cyc' = cyc + 1
    /\ UNCHANGED exchVars

CycleExecStep == ExecRun /\ UNCHANGED cyc

CycleTpslStep == TpslRun(1) /\ UNCHANGED <<dec, ex, cyc>>

\* One call of updatePositionTPSL against every set of pending orders.
InitTPSL ==
    /\ algos \in SUBSET SeedAlgos
    /\ nextAlgoId = 5
    /\ pos = NoPosition
    /\ tpsl = [c \in CallIds |-> TpslIdle]
    /\ dec = DecIdle
    /\ ex = ExIdle
    /\ cyc = 0

NextTPSL == TpslStep(1) /\ UNCHANGED <<dec, ex, cyc>>

SpecTPSL == InitTPSL /\ [][NextTPSL]_vars

\* One post-processing of every model answer and snapshot.
InitDecide ==
    /\ algos = {}
    /\ nextAlgoId = 1
    /\ pos = NoPosition
    /\ tpsl = [c \in CallIds |-> TpslIdle]
    /\ (dec \in DecInputs \/ dec \in DecInputsR \/ dec \in DecInputsC)
    /\ ex = ExIdle
    /\ cyc = 0

NextDecide == GetTradingDecision /\ UNCHANGED cyc

SpecDecide == InitDecide /\ [][NextDecide]_vars

\* Two calls of updatePositionTPSL on the long side, each with a stop-loss
\* price, in every interleaving of their requests.
ConcurrentSl == {MaxPx - 1, MaxPx}
ConcurrentTp == {NoPrice, MaxPx}

ConcurrentStart(c) ==
    \E sl \in ConcurrentSl, tp \in ConcurrentTp : TpslStart(c, "long", sl, tp, FALSE)

NextConcurrent ==
    /\ \E c \in CallIds : ConcurrentStart(c) \/ TpslRun(c)
    /\ UNCHANGED <<dec, ex, cyc>>

SpecConcurrent == InitTPSL /\ [][NextConcurrent]_vars

\* Calls of getTradingDecision over every total equity.
InitStage ==
    /\ algos = {}
    /\ nextAlgoId = 1
    /\ pos = NoPosition
    /\ tpsl = [c \in CallIds |-> TpslIdle]
    /\ dec \in StageInputs
    /\ ex = ExIdle
    /\ cyc = 0

NextStage == (GetTradingDecision \/ NextSnapshot) /\ UNCHANGED cyc

SpecStage == InitStage /\ [][NextStage]_vars

\* One call of executeOrder against every account state: nothing held, one
\* side held, both sides held.
InitExec ==
    /\ algos \in SUBSET { AlgoOrder(1, "long", 2, 0) }
    /\ nextAlgoId = 5
    /\ pos \in [Sides -> {0, 2}]
    /\ tpsl = [c \in CallIds |-> TpslIdle]
    /\ dec = DecIdle
    /\ ex = ExIdle
    /\ cyc = 0

NextExec == ExecStep /\ UNCHANGED cyc

SpecExec == InitExec /\ [][NextExec]_vars

\* One call of executeOrder while the account changes under it.
NextExecEnv == (ExecStep \/ PositionShrinks) /\ UNCHANGED cyc

SpecExecEnv == InitExec /\ [][NextExecEnv]_vars

\* One call, of executeOrder or of updatePositionTPSL.
InitCall == InitExec \/ InitTPSL

NextCall ==
    \/ tpsl[1].pc = "idle" /\ NextExec
    \/ ex.pc = "idle" /\ NextTPSL

SpecCall == InitCall /\ [][NextCall]_vars

\* Evaluation cycles from an empty account.
InitCycle ==
    /\ algos = {}
    /\ nextAlgoId = 1
    /\ pos = NoPosition
    /\ tpsl = [c \in CallIds |-> TpslIdle]
    /\ dec = DecIdle
    /\ ex = ExIdle
    /\ cyc = 0

NextCycle ==
    \/ StartCycle
    \/ GetTradingDecision /\ UNCHANGED cyc
    \/ DispatchOrder
    \/ DispatchTpsl
    \/ CycleExecStep
    \/ CycleTpslStep
    \/ EndCycle

SpecCycle == InitCycle /\ [][NextCycle]_vars


\* ------------------------------------------------------------------ claims
Call1 == tpsl[1]
HasLog(c, req, out) == \E i \in DOMAIN tpsl[c].log : tpsl[c].log[i] = [req |-> req, out |-> out]
ConfirmedBefore(c, req, i) ==
    \E j \in 1..(i - 1) : tpsl[c].log[j] = [req |-> req, out |-> "ok"]
PlacementFailed(c) ==
    \E i \in DOMAIN tpsl[c].log :
        /\ tpsl[c].log[i].req \in {"placeSL", "placeTP"}
        /\ tpsl[c].log[i].out \in {"reject", "throw"}
CancelIssued(c) == \E i \in DOMAIN tpsl[c].log : tpsl[c].log[i].req = "cancel"

\* C1: the cancel request is issued only after every requested new conditional
\* order was confirmed; after a failed placement no cancel is ever issued, the
\* orders pending before the call all stay pending, and the call throws.
C1_PlaceBeforeCancel ==
    /\ \A i \in DOMAIN Call1.log :
          Call1.log[i].req = "cancel" =>
              /\ Truthy(Call1.slPrice) => ConfirmedBefore(1, "placeSL", i)
              /\ Truthy(Call1.tpPrice) => ConfirmedBefore(1, "placeTP", i)
    /\ PlacementFailed(1) =>
          /\ ~CancelIssued(1)
          /\ Call1.pre \subseteq algos
          /\ Call1.pc = "done" /\ Call1.result = "throw"

C1_Witness ==
    /\ Call1.pc = "done" /\ Call1.result = "ok"
    /\ Truthy(Call1.slPrice) /\ Truthy(Call1.tpPrice)
    /\ HasLog(1, "cancel", "ok")
    /\ Call1.pre # {} /\ Call1.pre \cap algos = { o \in Call1.pre : o.posSide # Call1.posSide }

HadStopLoss(c) == \E o \in tpsl[c].pre : o.posSide = tpsl[c].posSide /\ o.slTriggerPx > 0

\* C2: a position that had a pending stop-loss before the call has one in
\* every state of the call and after it, whatever arguments were supplied.
C2_ProtectionContinuity ==
    (Call1.pc # "idle" /\ HadStopLoss(1)) => HasStopLoss(Call1.posSide)

\* hardCap = (availableEquity x capRatio x leverage) / (contractUnitValue x
\* price) as a numerator over SizeDen(dec); part_000 knows one ratio, 0.95.
HardCapNum ==
    ContractsNum(dec, IF dec.ver = "A" THEN CapRatioPermille ELSE MaxSafePermille)

\* C3: the size written to a BUY/SELL decision never exceeds hardCap, whatever
\* size the model proposed.
C3_SizeWithinHardCap ==
    (dec.pc = "decided" /\ dec.action \in {"BUY", "SELL"} /\ dec.size # SizeUnset)
        => dec.size * SizeDen(dec) <= HardCapNum

RatchetCase ==
    /\ dec.pc = "decided" /\ dec.modelAction = "UPDATE_TPSL"
    /\ dec.hasPosition /\ dec.currentSL > 0 /\ ~dec.stopLoss.nan

RatchetVerdict ==
    /\ (dec.posSide = "long" /\ dec.stopLoss.v < dec.currentSL) => dec.action = "HOLD"
    /\ (dec.posSide = "short" /\ dec.stopLoss.v > dec.currentSL) => dec.action = "HOLD"
    /\ (dec.posSide = "long" /\ dec.stopLoss.v >= dec.currentSL) => dec.action = "UPDATE_TPSL"
    /\ (dec.posSide = "short" /\ dec.stopLoss.v <= dec.currentSL) => dec.action = "UPDATE_TPSL"

ExReqs(req) == { i \in DOMAIN ex.log : ex.log[i].req = req }
Orders == SelectSeq(ex.log, LAMBDA r : r.req = "order")
IsBuySell == ex.action \in {"BUY", "SELL"}

LeverageBeforeOrders ==
    /\ \A i \in ExReqs("order") :
          \E j \in ExReqs("setLeverage") : j < i /\ ex.log[j].out = "ok"
    /\ Cardinality(ExReqs("setLeverage")) <= 1
    /\ (\E j \in ExReqs("setLeverage") : ex.log[j].out \in {"reject", "throw"}) =>
          /\ ExReqs("order") = {}
          /\ ex.pc = "done" /\ ex.result = "throwLeverage"

\* C7 (as amended): a market order is submitted only after set-leverage
\* returned success; set-leverage is called at most once per call and exactly
\* once in every call whose position query was answered; when it fails the
\* call throws and no market order is submitted.
C7_LeverageFirst ==
    IsBuySell =>
        /\ LeverageBeforeOrders
        /\ (ex.pc = "done" /\ \E i \in ExReqs("posQuery") : ex.log[i].out # "throw")
              => Cardinality(ExReqs("setLeverage")) = 1

C7_Witness ==
    /\ IsBuySell /\ ex.pc = "done" /\ ex.result = "ok"
    /\ Len(Orders) = 2 /\ Cardinality(ExReqs("setLeverage")) = 1

\* C7 (as claimed): set-leverage is called exactly once per executeOrder call.
C7_LeverageExactlyOnce ==
    (IsBuySell /\ ex.pc = "done" /\ ex.result # "simOk")
        => Cardinality(ExReqs("setLeverage")) = 1

\* The side the claim expects for what is held when the call starts.
ExpectedSide ==
    CASE ex.pre.long > 0 /\ ex.pre.short = 0 ->
            [side |-> IF ex.action = "BUY" THEN "buy" ELSE "sell", posSide |-> "long",
             reduceOnly |-> ex.action = "SELL"]
      [] ex.pre.short > 0 /\ ex.pre.long = 0 ->
            [side |-> IF ex.action = "BUY" THEN "buy" ELSE "sell", posSide |-> "short",
             reduceOnly |-> ex.action = "BUY"]
      [] OTHER ->
            [side |-> IF ex.action = "BUY" THEN "buy" ELSE "sell",
             posSide |-> IF ex.action = "BUY" THEN "long" ELSE "short",
             reduceOnly |-> FALSE]

\* C8: with a live long position BUY resolves to buy/long and SELL to
\* sell/long reduce-only; with a live short position SELL resolves to
\* sell/short and BUY to buy/short reduce-only; with no position BUY opens
\* long and SELL opens short (an account holding both sides is left open).
C8_SideResolution ==
    (/\ IsBuySell /\ ex.resolved # NoSide
     /\ ~(ex.pre.long > 0 /\ ex.pre.short > 0)
     /\ \A i \in DOMAIN Orders : Orders[i].out # "ok")
        => ex.resolved = ExpectedSide

Abs(x) == IF x < 0 THEN -x ELSE x

RetriesOnlyAfterMargin ==
    /\ Len(Orders) <= 3
    /\ \A i \in 2..Len(Orders) : Orders[i - 1].out = "margin"

IsPrefix(a, b) == Len(a) <= Len(b) /\ \A i \in DOMAIN a : a[i] = b[i]
OrderSizesSent == [i \in DOMAIN Orders |-> Orders[i].sz.v]

\* C10: from size 1.00, with every placement rejected for margin, the sizes
\* submitted are 1.00, 0.80, 0.64 in this order, then the call throws the
\* 51008 error; there is no fourth attempt.
C10_ShrinkSequence ==
    (/\ IsBuySell /\ ex.size = Num(100)
     /\ \A i \in DOMAIN Orders : Orders[i].out \in {"margin", "pending"})
        => /\ IsPrefix(OrderSizesSent, <<100, 80, 64>>)
           /\ (ex.pc = "done" /\ Orders # <<>>) =>
                 /\ OrderSizesSent = <<100, 80, 64>>
                 /\ ex.result = "throwMargin"

C10_Witness ==
    /\ ex.pc = "done" /\ ex.result = "throwMargin"
    /\ OrderSizesSent = <<100, 80, 64>>
    /\ \A i \in DOMAIN Orders : Orders[i].out = "margin"

\* C11: after a 51008 rejection of a size whose 80% is below 0.01 contracts
\* no further placement is attempted and the call throws; so every attempt
\* carries a smaller size than each attempt rejected before it.
C11_ShrinkBelowMinimumAborts ==
    IsBuySell =>
        /\ \A i \in DOMAIN Orders :
              (Orders[i].out = "margin" /\ ~Orders[i].sz.nan /\ 8 * Orders[i].sz.v < 10)
                  => /\ i = Len(Orders)
                     /\ ex.pc = "done" /\ ex.result = "throwMargin"
        /\ \A i, j \in DOMAIN Orders :
              (i < j /\ ~Orders[i].sz.nan /\ ~Orders[j].sz.nan)
                  => Orders[j].sz.v < Orders[i].sz.v

SingleRequests == {"modeGet", "modeSet", "closeLong", "closeShort", "posQuery", "setLeverage"}

\* C12: a rejection of the market order with any code but 51008 (or a failed
\* request) ends the call at once with the exchange's error and no further
\* attempt; no request other than the market order after a 51008 rejection is
\* issued twice within one call.
C12_OtherRejectionsTerminal ==
    /\ \A i \in DOMAIN Orders :
          Orders[i].out \in {"other", "throw"} =>
              /\ i = Len(Orders)
              /\ ex.pc = "done"
              /\ ex.result = (IF Orders[i].out = "other" THEN "throwExchange" ELSE "throwNet")
    /\ \A req \in SingleRequests : Cardinality(ExReqs(req)) <= 1
    /\ \A i \in 2..Len(Orders) : Orders[i - 1].out = "margin"

C12_Witness ==
    /\ ex.pc = "done" /\ ex.result = "throwExchange"
    /\ Len(Orders) = 2 /\ Orders[1].out = "margin" /\ Orders[2].out = "other"
    /\ ex.retries = 1

Accepted == { i \in DOMAIN Orders : Orders[i].out = "ok" }

\* C13: at most one market order of a call is accepted: an accepted attempt
\* is the last one and the call returns it, every retry follows a rejected
\* attempt, and what is held changes by the one accepted order only.
C13_SingleFill ==
    IsBuySell =>
        /\ Cardinality(Accepted) <= 1
        /\ \A i \in Accepted :
              /\ i = Len(Orders) /\ ex.pc = "done" /\ ex.result = "ok"
              /\ \A sd \in Sides : Abs(pos[sd] - ex.pre[sd]) =
                    (IF sd = Orders[i].side.posSide
                     THEN (IF Orders[i].side.reduceOnly
                           THEN Min(Orders[i].sz.v, ex.pre[sd]) ELSE Orders[i].sz.v)
                     ELSE 0)
        /\ Accepted = {} => pos = ex.pre
        /\ \A i \in 2..Len(Orders) : Orders[i - 1].out \notin {"ok", "pending"}

C13_Witness ==
    /\ IsBuySell /\ ex.pc = "done" /\ ex.result = "ok"
    /\ Len(Orders) = 3 /\ Accepted = {3}
    /\ pos.long = ex.pre.long + 64

\* C14: a reduce-only market order is submitted without attached stop-loss or
\* take-profit, whatever the decision holds; an order that is not reduce-only
\* carries the decision's valid triggers; no conditional order comes from a
\* reduce-only order.
C14_NoTriggersOnReduceOnly ==
    /\ \A i \in DOMAIN Orders :
          IF Orders[i].side.reduceOnly
          THEN Orders[i].sl = 0 /\ Orders[i].tp = 0
          ELSE Orders[i].sl = CleanPrice(ex.sl) /\ Orders[i].tp = CleanPrice(ex.tp)
    /\ (IsBuySell /\ ex.resolved.reduceOnly) => nextAlgoId = 5

C14_Witness ==
    /\ ex.pc = "done" /\ ex.result = "ok" /\ ex.resolved.reduceOnly
    /\ CleanPrice(ex.sl) > 0 /\ CleanPrice(ex.tp) > 0
    /\ Len(Orders) = 1 /\ Orders[1].sl = 0 /\ Orders[1].tp = 0
    /\ pos.long = 1 /\ ex.pre.long = 2

\* ---------------------------------------------------------------- CLOSE claims
IsLiveClose == ex.action = "CLOSE" /\ ex.pc # "idle" /\ ex.result # "simOk"
CloseOut(req) == { ex.log[i].out : i \in ExReqs(req) }
SidesClosed == { sd \in Sides : ex.pre[sd] > 0 /\ pos[sd] = 0 }

\* C15: a CLOSE call issues the long-side close first and exactly once, the
\* short-side close at most once and only after the long-side answer; it
\* returns success on the first side that succeeds, and after a failed long
\* close a successful short close is the result, with no second long attempt.
C15_CloseOrder ==
    IsLiveClose =>
        /\ Cardinality(ExReqs("closeLong")) <= 1
        /\ Cardinality(ExReqs("closeShort")) <= 1
        /\ ex.pc = "done" => Cardinality(ExReqs("closeLong")) = 1
        /\ \A j \in ExReqs("closeShort") :
              \E i \in ExReqs("closeLong") : i < j /\ ex.log[i].out # "pending"
        /\ "ok" \in CloseOut("closeLong") =>
              /\ ExReqs("closeShort") = {}
              /\ ex.pc = "done" /\ ex.result = "ok"
        /\ "ok" \in CloseOut("closeShort") =>
              /\ ex.pc = "done" /\ ex.result = "ok"
              /\ ex.log[Len(ex.log)].req = "closeShort"
        /\ ex.result = "ok" => "ok" \in (CloseOut("closeLong") \cup CloseOut("closeShort"))

C15_Witness ==
    /\ IsLiveClose /\ ex.pc = "done" /\ ex.result = "ok"
    /\ CloseOut("closeLong") = {"notFound"} /\ CloseOut("closeShort") = {"ok"}
    /\ ex.pre.short > 0 /\ pos.short = 0

\* C16 (as amended): the short-side close is attempted exactly when the
\* long-side close was answered with a code other than '0', whatever the
\* class of the rejection; after a success or a failed request it is not.
C16_ShortAfterAnyRejection ==
    (IsLiveClose /\ ex.pc \notin {"modeGet", "modeGetWait", "modeSet", "modeSetWait", "closeLong", "closeLongWait"})
        => (ExReqs("closeShort") # {} \/ ex.pc = "closeShort")
              <=> (\E out \in CloseOut("closeLong") : CloseRejected(out))

C16_Witness ==
    /\ IsLiveClose /\ ex.pc = "done"
    /\ CloseOut("closeLong") = {"other"} /\ ExReqs("closeShort") # {}
    /\ ex.pre.long > 0

\* C16 (as claimed): the short-side close is attempted if and only if the
\* long-side close was rejected with a "position does not exist" error.
C16_ShortOnlyAfterNotFound ==
    (IsLiveClose /\ ex.pc = "done")
        => (ExReqs("closeShort") # {} <=> "notFound" \in CloseOut("closeLong"))

\* C17: one CLOSE call closes at most one side, whatever is held and whatever
\* the exchange answers.
C17_AtMostOneSideClosed ==
    ex.action = "CLOSE" => Cardinality(SidesClosed) <= 1

C17_Witness ==
    /\ IsLiveClose /\ ex.pc = "done" /\ ex.result = "ok"
    /\ ex.pre.long > 0 /\ ex.pre.short > 0
    /\ SidesClosed = {"long"}

\* C18: when both closes are rejected the call throws one error that names
\* the reason of the long attempt and the reason of the short attempt, and
\* nothing is closed.
C18_BothFailedError ==
    (/\ IsLiveClose
     /\ \E o \in CloseOut("closeLong") : CloseRejected(o)
     /\ \E o \in CloseOut("closeShort") : CloseRejected(o))
        => /\ ex.pc = "done" /\ ex.result = "throwClose"
           /\ Len(ex.err) = 2
           /\ ex.err[1].side = "long" /\ ex.err[2].side = "short"
           /\ \A o \in CloseOut("closeLong") :
                 ex.err[1].text = (IF o = "notFound" THEN "notExist" ELSE "exchangeMsg")
           /\ \A o \in CloseOut("closeShort") :
                 ex.err[2].text = (IF o = "notFound" THEN "notExist" ELSE "exchangeMsg")
           /\ pos = ex.pre

C18_Witness ==
    /\ IsLiveClose /\ ex.pc = "done" /\ ex.result = "throwClose"
    /\ CloseOut("closeLong") = {"other"} /\ CloseOut("closeShort") = {"notFound"}
    /\ ex.pre.long > 0 /\ pos = ex.pre

\* ---------------------------------------------------------------- sizer claims
\* min(candidate, hardCap) is below 0.01 contracts.
FinalBelowMinimum ==
    IF dec.ver = "A" THEN FinalNum2(dec) < 2 * SizeDen(dec)
    ELSE dec.ver = "B" /\ NumContractsB(dec) < 1

\* C19: when the final size min(candidate, hardCap) is below 0.01 contracts
\* the decision returned for a proposed BUY or SELL is HOLD with size 0, with
\* or without a position.
C19_BelowMinimumHolds ==
    (dec.pc = "decided" /\ dec.modelAction \in {"BUY", "SELL"} /\ FinalBelowMinimum)
        => dec.action = "HOLD" /\ dec.size = 0

\* C20: the size of a BUY/SELL decision of aiService.ts is min(candidate,
\* hardCap) floored to a multiple of 0.01 contracts.
C20_SizeFlooredToIncrement ==
    (dec.pc = "decided" /\ dec.ver = "A" /\ dec.action \in {"BUY", "SELL"})
        => dec.size = FinalNum2(dec) \div (2 * SizeDen(dec))

SizedByA == dec.pc = "decided" /\ dec.ver = "A" /\ dec.modelAction \in {"BUY", "SELL"}

\* C21: algoContracts = (availableEquity x riskRatio x modifier x leverage) /
\* (contractUnitValue x price) with riskRatio 0.30 when opening and 0.15 when
\* adding; in hundredths of a contract that is
\* (10 x equity x permille x 2 x modifier x leverage) / (20 x price).
C21_AlgoContracts ==
    (SizedByA /\ dec.price > 0) =>
        /\ dec.algo.den = 20 * dec.price
        /\ dec.algo.num =
              10 * dec.availEq * (IF dec.hasPosition THEN 150 ELSE 300)
                 * (IF dec.sharpeNeg THEN 1 ELSE 2)
                 * (IF dec.leverage.nan THEN dec.stageLeverage ELSE dec.leverage.v)

C21_Witness ==
    /\ SizedByA /\ ~dec.hasPosition /\ ~dec.sharpeNeg
    /\ dec.availEq = 100 /\ dec.leverage = Num(10) /\ dec.price = 3000
    /\ dec.algo.num = 100 * dec.algo.den

\* C22: the candidate size is the size the model proposed exactly when that
\* parses to a number > 0, and algoContracts when it is absent, "0", zero,
\* negative or not a number.
C22_CandidateChoice ==
    SizedByA =>
        IF dec.positionSize.kind = "num" /\ dec.positionSize.v > 0
        THEN dec.candidate.num = dec.positionSize.v * dec.candidate.den
        ELSE dec.candidate = dec.algo

C22_Witness ==
    /\ SizedByA /\ dec.positionSize = SizeNum(-100)
    /\ dec.availEq = 100 /\ dec.candidate = dec.algo /\ dec.candidate.num > 0

\* C23: for UPDATE_TPSL on a position without a current stop-loss, every
\* positive proposed stop-loss is accepted, for long and for short positions.
C23_InitialAnchorAccepted ==
    (/\ dec.pc = "decided" /\ dec.modelAction = "UPDATE_TPSL" /\ dec.hasPosition
     /\ dec.currentSL = 0 /\ ~dec.stopLoss.nan /\ dec.stopLoss.v > 0)
        => dec.action = "UPDATE_TPSL"

C23_Witness ==
    /\ dec.pc = "decided" /\ dec.ver = "B" /\ dec.modelAction = "UPDATE_TPSL"
    /\ dec.hasPosition /\ dec.posSide = "short" /\ dec.currentSL = 0
    /\ dec.stopLoss = Num(MaxPx) /\ dec.action = "UPDATE_TPSL"

\* A proposal the ratchet forbids; a sizing below the minimum increment.
RatchetViolation ==
    /\ dec.modelAction = "UPDATE_TPSL" /\ dec.hasPosition /\ dec.currentSL > 0
    /\ ~dec.stopLoss.nan /\ dec.stopLoss.v > 0
    /\ \/ dec.posSide = "long" /\ dec.stopLoss.v < dec.currentSL
       \/ dec.posSide = "short" /\ dec.stopLoss.v > dec.currentSL
RiskClamp == dec.modelAction \in {"BUY", "SELL"} /\ FinalBelowMinimum

\* C24: a ratchet violation or a risk clamp does not make getTradingDecision
\* throw: the decision returned is not the error decision, its action is HOLD
\* and a remark naming the reason is appended to its reasoning.
C24_RejectionsDowngrade ==
    (dec.pc = "decided" /\ dec.ver = "A" /\ dec.answer = "ok" /\ (RatchetViolation \/ RiskClamp))
        => /\ ~dec.fallback
           /\ dec.action = "HOLD"
           /\ RatchetViolation => "ratchet" \in dec.notes
           /\ RiskClamp => "minimum" \in dec.notes /\ dec.size = 0

\* A decision field that is missing or not a number where the action reads it.
NonNumericField ==
    \/ dec.modelAction = "UPDATE_TPSL" /\ dec.stopLoss.nan
    \/ dec.modelAction \in {"BUY", "SELL"} /\ (dec.positionSize = SizeText \/ dec.leverage.nan)

\* C25 (as amended): an answer that is empty, no JSON or without
\* trading_decision.action gives the System Error decision (HOLD, size 0)
\* and no exception; a stop_loss, size or leverage that is not a number gives
\* no exception either and no downgrade: the action is kept, the size falls
\* back to algoContracts and the leverage to the stage leverage.
C25_InvalidAnswers ==
    dec.pc = "decided" =>
        /\ dec.answer # "ok" =>
              dec.fallback /\ dec.action = "HOLD" /\ dec.size = 0
        /\ (dec.answer = "ok" /\ NonNumericField) =>
              /\ ~dec.fallback
              /\ dec.modelAction = "UPDATE_TPSL" => dec.action = "UPDATE_TPSL"
              /\ (dec.ver = "A" /\ dec.modelAction \in {"BUY", "SELL"}) =>
                    /\ dec.action = dec.modelAction
                    /\ dec.positionSize = SizeText => dec.candidate = dec.algo
                    /\ dec.leverage.nan =>
                          dec.algo.num = 10 * dec.availEq * RiskPermille2(dec) * dec.stageLeverage

C25_Witness ==
    /\ dec.pc = "decided" /\ dec.answer = "badJson"
    /\ dec.fallback /\ dec.action = "HOLD" /\ dec.size = 0

\* C25 (as claimed): every answer whose decision fields are missing or not
\* numbers gives a decision with action HOLD.
C25_InvalidFieldsHold ==
    (dec.pc = "decided" /\ (dec.answer # "ok" \/ NonNumericField)) => dec.action = "HOLD"

\* In a request log only the last request can be waiting for its response.
OneInFlight(log) == \A i \in DOMAIN log : log[i].out = "pending" => i = Len(log)
AnsweredBefore(req, i) == \E j \in ExReqs(req) : j < i /\ ex.log[j].out # "pending"

\* C26: within a call of executeOrder or of updatePositionTPSL at most one
\* request is in flight and each request is issued after the response to
\* the previous one; for BUY/SELL the position query precedes set-leverage,
\* which precedes every market order.
C26_SequentialRequests ==
    /\ OneInFlight(ex.log)
    /\ OneInFlight(tpsl[1].log)
    /\ IsBuySell =>
          /\ \A i \in ExReqs("setLeverage") : AnsweredBefore("posQuery", i)
          /\ \A i \in ExReqs("order") :
                AnsweredBefore("posQuery", i) /\ AnsweredBefore("setLeverage", i)

C26_Witness ==
    /\ IsBuySell /\ ex.pc = "placeWait" /\ Len(Orders) = 2
    /\ Orders[1].out = "margin" /\ Orders[2].out = "pending"
    /\ Len(ex.log) >= 5

\* The side a BUY / SELL opens, and the case of C27: the position read is on
\* the other side.
ActionSide == IF ex.action = "BUY" THEN "long" ELSE "short"
OppositeRead == IsBuySell /\ ex.resolved # NoSide /\ ex.resolved.posSide # ActionSide

\* C27: when the action is opposite to the side of the position read, every
\* attempt is submitted reduce-only with posSide = the existing side, and
\* the side of the action is neither opened nor increased by the call, also
\* when the position shrinks or disappears after the position query.
C27_NoReversal ==
    OppositeRead =>
        /\ \A i \in DOMAIN Orders :
              Orders[i].side.reduceOnly /\ Orders[i].side.posSide = ex.resolved.posSide
        /\ pos[ActionSide] <= ex.pre[ActionSide]

C27_Witness ==
    /\ OppositeRead /\ ex.pc = "done"
    /\ ex.pre[ex.resolved.posSide] > 0 /\ pos[ex.resolved.posSide] = 0
    /\ Len(Orders) >= 1
    /\ \A i \in DOMAIN Orders : Orders[i].out \notin {"ok", "pending"}

\* The decided input with the other sign of the trailing Sharpe ratio.
WithSharpe(neg) == [dec EXCEPT !.sharpeNeg = neg]

\* C28: with otherwise identical inputs a negative Sharpe ratio halves the
\* algorithmic target, the size it produces is never larger than the size a
\* non-negative one produces, and the hard cap is the same in both cases.
C28_SharpeHalves ==
    (SizedByA /\ dec.sharpeNeg) =>
        /\ dec.algo.den = 2 * SizeDen(WithSharpe(FALSE))
        /\ 2 * dec.algo.num = AlgoNum2(WithSharpe(FALSE))
        /\ MaxContractsCapNum(WithSharpe(TRUE)) = MaxContractsCapNum(WithSharpe(FALSE))
        /\ IF FinalNum2(WithSharpe(TRUE)) = FinalNum2(WithSharpe(FALSE))
           THEN \E r \in DecideA(WithSharpe(FALSE)) : r.size = dec.size
           ELSE \A r \in DecideA(WithSharpe(FALSE)) : dec.size <= r.size

C28_Witness ==
    /\ SizedByA /\ dec.sharpeNeg /\ dec.action = "BUY"
    /\ dec.candidate = dec.algo /\ "capped" \notin dec.notes
    /\ \A r \in DecideA(WithSharpe(FALSE)) : dec.size > 1 /\ dec.size < r.size

\* C29: the stage is a function of the total equity alone: below 20 USDT
\* stage 1, from 20 to below 80 stage 2, from 80 on stage 3; every equity
\* selects exactly one stage, whatever the calls before selected.
C29_StageByEquity ==
    dec.pc = "decided" =>
        /\ dec.stage \in {1, 2, 3}
        /\ dec.stage = 1 <=> (~dec.totalEq.nan /\ dec.totalEq.v < 2 * 20)
        /\ dec.stage = 2 <=> (~dec.totalEq.nan /\ 2 * 20 <= dec.totalEq.v /\ dec.totalEq.v < 2 * 80)
        /\ ~dec.totalEq.nan /\ dec.totalEq.v >= 2 * 80 => dec.stage = 3

C29_Witness ==
    /\ dec.pc = "decided" /\ dec.fallback
    /\ dec.totalEq = Num(2 * 20) /\ dec.stage = 2

\* The case of C30: both prices supplied, the stop-loss placed, the
\* take-profit rejected, the call over.
TpRejectedAfterSl ==
    /\ Call1.pc = "done" /\ Truthy(Call1.slPrice) /\ Truthy(Call1.tpPrice)
    /\ HasLog(1, "placeSL", "ok") /\ HasLog(1, "placeTP", "reject")

\* C30: when the stop-loss placement succeeds and the take-profit placement
\* is then rejected, updatePositionTPSL throws without issuing a cancel and
\* without rolling back the new stop-loss: the old conditional orders and
\* the new stop-loss are all pending afterwards.
C30_NoRollback ==
    TpRejectedAfterSl =>
        /\ Call1.result = "throw"
        /\ ~CancelIssued(1)
        /\ Len(Call1.log) = 3
        /\ Call1.pre \subseteq algos
        /\ \E o \in algos \ Call1.pre :
              /\ o.algoId \in Call1.placed /\ o.posSide = Call1.posSide
              /\ o.slTriggerPx = Call1.slPrice

C30_Witness ==
    /\ TpRejectedAfterSl
    /\ Call1.toCancel # {}
    /\ \E o \in Call1.pre : o.posSide = Call1.posSide /\ o.slTriggerPx > 0

\* The orders of the side of call 1 that were pending when it fetched.
FetchedOfSide == { o \in Call1.pre : o.posSide = Call1.posSide }
AlgoIds(orders) == { o.algoId : o \in orders }

\* C31: the ids updatePositionTPSL sends to cancel are exactly the pending
\* orders of its position side fetched before any placement, stop-loss and
\* take-profit alike whichever prices were supplied; never an order the call
\* placed itself, never an order of the other side.
C31_CancelSet ==
    CancelIssued(1) =>
        /\ HasLog(1, "fetch", "ok")
        /\ Call1.toCancel = AlgoIds(FetchedOfSide)
        /\ Call1.toCancel \cap Call1.placed = {}
        /\ Call1.toCancel \cap AlgoIds(Call1.pre \ FetchedOfSide) = {}
        /\ HasLog(1, "cancel", "ok") =>
              /\ algos \cap FetchedOfSide = {}
              /\ Call1.pre \ FetchedOfSide \subseteq algos
              /\ Call1.placed \subseteq AlgoIds(algos)

C31_Witness ==
    /\ HasLog(1, "cancel", "ok")
    /\ ~Truthy(Call1.slPrice) /\ Truthy(Call1.tpPrice) /\ Call1.placed # {}
    /\ \E o \in FetchedOfSide : o.slTriggerPx > 0 /\ o.tpTriggerPx = 0
    /\ \E o \in FetchedOfSide : o.tpTriggerPx > 0 /\ o.slTriggerPx = 0
    /\ Call1.pre \ FetchedOfSide # {}

\* Two calls under way on the same side, each with a stop-loss price, none
\* of their placements refused so far.
BothPlacing ==
    \A c \in CallIds :
        /\ tpsl[c].pc # "idle" /\ tpsl[c].result # "simOk"
        /\ Truthy(tpsl[c].slPrice) /\ tpsl[c].posSide = tpsl[1].posSide
        /\ ~PlacementFailed(c)
NewStopLossPending(c) ==
    \E o \in algos : o.algoId \in tpsl[c].placed /\ o.slTriggerPx > 0

\* C32 (as amended): for every interleaving of two concurrent calls on the
\* same side that each supply a stop-loss price and whose placements succeed,
\* a stop-loss is pending in every state once one was pending before either
\* call or one of the calls has placed its own; after both calls complete, at
\* least one of the two new stop-loss orders is still pending.
C32_ConcurrentProtection ==
    BothPlacing =>
        /\ (\/ \E c \in CallIds : HadStopLoss(c)
            \/ \E c \in CallIds : HasLog(c, "placeSL", "ok"))
              => HasStopLoss(tpsl[1].posSide)
        /\ (\A c \in CallIds : tpsl[c].pc = "done")
              => \E c \in CallIds : NewStopLossPending(c)

\* Both calls are over, each cancelled what it had fetched, and the second
\* had fetched the stop-loss the first placed.
C32_Witness ==
    /\ BothPlacing
    /\ \A c \in CallIds : tpsl[c].pc = "done" /\ HasLog(c, "cancel", "ok")
    /\ \E c \in CallIds : HadStopLoss(c)
    /\ \E c \in CallIds : tpsl[c].placed # {} /\ ~NewStopLossPending(c)

\* C32 as stated: a stop-loss is pending in every reachable state.
C32_AlwaysStopLoss == BothPlacing => HasStopLoss(tpsl[1].posSide)

\* The call is over and every placement it was asked for was accepted.
PlacementsSucceeded ==
    /\ Call1.pc = "done" /\ Call1.result # "simOk"
    /\ Truthy(Call1.slPrice) => HasLog(1, "placeSL", "ok")
    /\ Truthy(Call1.tpPrice) => HasLog(1, "placeTP", "ok")
Success == Call1.result \in {"ok", "nothingNew"}

\* C33 (as amended): when every requested placement succeeded the call
\* returns success whatever the exchange answers to the cancel request: after
\* a rejected cancel it reports success and the old orders stay pending next
\* to the new ones.  Only a cancel request that does not complete makes the
\* call throw.
C33_CancelAnswerUnread ==
    PlacementsSucceeded =>
        /\ Success <=> ~HasLog(1, "cancel", "throw")
        /\ HasLog(1, "cancel", "reject") =>
              /\ Call1.result = "ok"
              /\ Call1.pre \subseteq algos
              /\ Call1.placed \subseteq AlgoIds(algos)

C33_Witness ==
    /\ PlacementsSucceeded /\ HasLog(1, "cancel", "reject") /\ Call1.result = "ok"
    /\ Truthy(Call1.slPrice) /\ Call1.placed # {} /\ FetchedOfSide # {}

\* C33 as stated: success whenever every requested placement succeeded.
C33_SuccessWhenPlaced == PlacementsSucceeded => Success

\* C34: every market order executeOrder submits carries a size that is a
\* number >= 0.01, whatever order.size was (non-numeric, empty, zero,
\* negative): the size check throws before any placement otherwise.
C34_SubmittedSizeValid ==
    \A i \in DOMAIN Orders : ~Orders[i].sz.nan /\ Orders[i].sz.v >= 1

\* C35: across the placement attempts of one call only the size changes:
\* side, posSide, reduceOnly and the attached triggers are the same in every
\* attempt, and neither the position query nor set-leverage is repeated
\* between attempts.
C35_OnlySizeChanges ==
    /\ \A i, j \in DOMAIN Orders :
          /\ Orders[i].side = Orders[j].side
          /\ Orders[i].sl = Orders[j].sl /\ Orders[i].tp = Orders[j].tp
    /\ \A i \in ExReqs("order") : \A j \in DOMAIN ex.log : j > i => ex.log[j].req = "order"
    /\ Cardinality(ExReqs("posQuery")) <= 1 /\ Cardinality(ExReqs("setLeverage")) <= 1

C35_Witness ==
    /\ Len(Orders) = 3 /\ Orders[3].out # "pending"
    /\ Orders[1].sl > 0 /\ Orders[1].tp > 0
    /\ Orders[1].sz # Orders[2].sz /\ Orders[2].sz # Orders[3].sz

\* C36: for every initial size that is a multiple of 0.01 and >= 0.01, each
\* retry after a margin rejection submits a size strictly smaller than the
\* rejected one.
C36_StrictlyDecreasing ==
    (~ex.size.nan /\ ex.size.v >= 1) =>
        \A i \in 2..Len(Orders) : Orders[i].sz.v < Orders[i - 1].sz.v

\* The requests of the position-mode check, and whether one of them failed.
ModeReqs == ExReqs("modeGet") \cup ExReqs("modeSet")
ModeCheckFailed ==
    \E i \in ModeReqs :
        \/ ex.log[i].out \in {"reject", "throw"}
        \/ ex.log[i].req = "modeGet" /\ ex.log[i].out = "other"
              /\ \E j \in ExReqs("modeSet") : ex.log[j].out \in {"reject", "throw"}
ModeCheckOver == ex.pc \notin {"idle", "modeGet", "modeGetWait", "modeSet", "modeSetWait"}

\* C37: a failure of the position-mode check (reading the account config or
\* switching the mode) does not abort the call: the CLOSE or BUY / SELL path
\* starts from the same state as after a successful check.
C37_ModeCheckSwallowed ==
    (ModeCheckOver /\ ex.result # "simOk" /\ ModeCheckFailed) =>
        /\ ex.pc = "done" => Len(ex.log) > Cardinality(ModeReqs)
        /\ Len(ex.log) > Cardinality(ModeReqs) =>
              ex.log[Cardinality(ModeReqs) + 1].req =
                  (IF ex.action = "CLOSE" THEN "closeLong" ELSE "posQuery")
        /\ ex.pc \in {"closeLong", "posQuery"} =>
              ex = [ExIdle EXCEPT !.pc = ex.pc, !.log = ex.log, !.pre = pos,
                                  !.action = ex.action, !.size = ex.size,
                                  !.sl = ex.sl, !.tp = ex.tp]

C37_Witness ==
    /\ ex.action = "CLOSE" /\ ex.pc = "done" /\ ex.result = "ok"
    /\ ex.log[1].req = "modeGet" /\ ex.log[1].out = "other"
    /\ ex.log[2].req = "modeSet" /\ ex.log[2].out = "reject"

\* C38: every decision getTradingDecision returns with action HOLD, CLOSE or
\* UPDATE_TPSL has size "0"; a BUY / SELL the system downgrades to HOLD never
\* keeps a non-zero size.
C38_NonTradingSizeZero ==
    (dec.pc = "decided" /\ dec.action \in {"HOLD", "CLOSE", "UPDATE_TPSL"})
        => dec.size = 0

\* The case of C39: the return is above 0.6% and the stop-loss is unset or on
\* the losing side of the break-even price.
BreakEvenCase ==
    /\ dec.pc = "decided" /\ dec.ver = "C" /\ dec.hasPosition /\ dec.roiAbove
    /\ \/ dec.currentSL = 0
       \/ dec.posSide = "long" /\ dec.currentSL < dec.breakEvenPx
       \/ dec.posSide = "short" /\ dec.currentSL > dec.breakEvenPx

\* C39: in that case the returned decision is UPDATE_TPSL with the stop-loss
\* at the break-even price (to the cent) unless the model's action is CLOSE,
\* which is kept; the forced stop-loss is above an existing stop-loss of a
\* long and below an existing stop-loss of a short.
C39_ForcedBreakEven ==
    BreakEvenCase =>
        IF dec.modelAction = "CLOSE" THEN dec.action = "CLOSE"
        ELSE /\ dec.action = "UPDATE_TPSL"
             /\ Abs(2 * dec.forcedSL - dec.breakEvenPx) <= 1
             /\ dec.posSide = "long" => 2 * dec.forcedSL > dec.currentSL
             /\ dec.posSide = "short" => dec.currentSL = 0 \/ 2 * dec.forcedSL < dec.currentSL

StopLossTriggers(side) == { o.slTriggerPx : o \in { x \in algos : x.posSide = side /\ x.slTriggerPx > 0 } }

\* The stop-loss in effect for a side: of the pending stop-loss triggers the
\* one the price reaches first (the highest for long, the lowest for short),
\* 0 when none is pending.
EffectiveStopLoss(side) ==
    IF StopLossTriggers(side) = {} THEN 0
    ELSE CHOOSE t \in StopLossTriggers(side) :
            \A u \in StopLossTriggers(side) : IF side = "long" THEN u <= t ELSE u >= t

\* C5: while a long position stays open, its effective stop-loss, once set,
\* never decreases from one step of any cycle to the next.
C5_LongStopLossNonDecreasing ==
    [][(pos.long > 0 /\ pos'.long > 0 /\ EffectiveStopLoss("long") > 0)
          => EffectiveStopLoss("long")' >= EffectiveStopLoss("long")]_vars

\* C6: while a short position stays open, its effective stop-loss, once set,
\* never increases (nor disappears) from one step of any cycle to the next.
C6_ShortStopLossNonIncreasing ==
    [][(pos.short > 0 /\ pos'.short > 0 /\ EffectiveStopLoss("short") > 0)
          => /\ EffectiveStopLoss("short")' <= EffectiveStopLoss("short")
             /\ EffectiveStopLoss("short")' > 0]_vars

====
